---------------------------- MODULE Spec2Model ----------------------------
(***************************************************************************)
(* A model of the cshared bridge of calyptia/fluent-bit-go                 *)
(* (src/cshared.go): the host-facing entry points FLBPluginRegister,       *)
(* FLBPluginInit, FLBPluginInputCallback, FLBPluginFlush, FLBPluginExit,   *)
(* and the goroutines they start (the sampling worker, the redistributor,  *)
(* the user Flush worker).                                                 *)
(*                                                                         *)
(* The host calls the entry points from its threads (ThreadOf); a thread   *)
(* makes its next call once its last has returned, and calls of different  *)
(* threads interleave freely.  A Go panic ends the process: panicked is    *)
(* then a non-empty string and nothing moves any more.                     *)
(***************************************************************************)
EXTENDS Integers, Sequences, FiniteSets, TLC

\* ------------------------------------------------------------- bounds
\* Messages a collector pushes in one run (their ids are 1..MaxMsgs).
MaxMsgs == 3
\* Entries of one flush blob.
MaxBlob == 2
\* Capacity of theChannel in the input role: make(chan Message, 300000),
\* scaled down so that a full primary buffer is reached.
PrimaryCap == 1
\* Capacity of cbuf: make(chan Message, 16), scaled down likewise.
StagingCap == 1

\* ------------------------------------------------------------ constants
\* The statuses an entry point returns; NoRet: it has not returned.
FLB_ERROR == "ERROR"
FLB_OK == "OK"
FLB_RETRY == "RETRY"
NoRet == "none"

Names == {"a", "b"}
Tags == {"mytag", "other"}
RecIds == {1, 2}

VARIABLES
    theName,        \* plugin.go: theName ("" before registration)
    theDesc,        \* plugin.go: theDesc
    theInput,       \* plugin.go: theInput /= nil
    theOutput,      \* plugin.go: theOutput /= nil
    registerWG,     \* plugin.go: registerWG, the counter of the WaitGroup
    initWG,         \* plugin.go: initWG
    unregister,     \* cshared.go:33  unregister /= nil
    hostRegistered, \* the host holds the plugin's registration
    onceDone,       \* plugin.go: once (sync.Once) has fired
    runCancel,      \* runCtx, runCancel /= nil
    cancelled,      \* runCtx.Done() is closed
    chanState,      \* theChannel: "nil", "open" or "closed"
    theChannel,     \* the messages buffered in theChannel
    cbuf,           \* the messages buffered in cbuf
    buflock,        \* cshared.go:36  "free", or who holds it: "redis", "poll"
    pc,             \* where every thread and goroutine stands
    ret,            \* the status an entry point is about to return
    pollBuf,        \* FLBPluginInputCallback: buf, the batch being encoded
    blob,           \* FLBPluginFlush: the entries of data read so far
    tag,            \* FLBPluginFlush: ctag
    flushMsg,       \* FLBPluginFlush: the message being sent
    flushErr,       \* FLBPluginFlush: err of the call in progress
    errShared,      \* the Flush goroutine's closure holds that err
    redisMsg,       \* redistributor: msg, received from cbuf
    panicked,       \* "" or the reason of the panic that ended the process
    \* history, read by the properties only
    nextMsg,        \* id of the next message a collector pushes
    delivered,      \* the batches poll calls returned, concatenated
    got,            \* what user Flush received during the flush call
    hist            \* counters of what has happened so far

vars == << theName, theDesc, theInput, theOutput, registerWG, initWG,
           unregister, hostRegistered, onceDone, runCancel, cancelled,
           chanState, theChannel, cbuf, buflock, pc, ret, pollBuf,
           blob, tag, flushMsg, flushErr, errShared, redisMsg, panicked,
           nextMsg, delivered, got, hist >>

regVars == << theName, theDesc, theInput, theOutput >>
gateVars == << registerWG, initWG, unregister, hostRegistered >>
runVars == << onceDone, runCancel, cancelled, chanState >>
bufVars == << theChannel, cbuf, buflock, redisMsg >>
pollVars == << pollBuf, delivered >>
flushVars == << blob, tag, flushMsg, flushErr, errShared, got >>

Calls == {"register", "init", "poll", "flush", "exit"}
Workers == {"sampler", "redis", "worker"}
NoMsg == [id |-> 0, tag |-> ""]

Alive == panicked = ""

\* The host's threads: the loader calls FLBPluginRegister, the control
\* thread FLBPluginInit and FLBPluginExit, the engine thread the poll and
\* flush callbacks.  A thread makes its next call when its last has returned.
ThreadOf(c) ==
    CASE c = "register" -> "loader"
      [] c \in {"init", "exit"} -> "control"
      [] c \in {"poll", "flush"} -> "engine"

ThreadFree(c) == \A d \in Calls : ThreadOf(d) = ThreadOf(c) => pc[d] = "idle"

\* ------------------------------------------------------------ the codec
\* One entry of a flush blob as the decoder sees it.
WellFormed(i) ==
    [id |-> i, eof |-> FALSE, raw |-> TRUE, len |-> 2, timeExt |-> TRUE, isMap |-> TRUE,
     keyStr |-> TRUE, valBytes |-> TRUE]

WireEntries ==
    {WellFormed(i) : i \in RecIds}
    \cup {[WellFormed(1) EXCEPT !.raw = FALSE],
          [WellFormed(1) EXCEPT !.len = 3],
          [WellFormed(1) EXCEPT !.timeExt = FALSE],
          [WellFormed(1) EXCEPT !.isMap = FALSE],
          [WellFormed(1) EXCEPT !.keyStr = FALSE],
          [WellFormed(1) EXCEPT !.valBytes = FALSE]}

\* FLBPluginFlush, lines 317-365: the checks one entry goes through.
DecodeSkipsValues(e) ==
    /\ e.raw
    /\ e.len = 2
    /\ e.timeExt
    /\ e.isMap
    /\ e.keyStr

DecodeOk(e) ==
    /\ e.raw
    /\ e.len = 2
    /\ e.timeExt
    /\ e.isMap
    /\ e.keyStr
    /\ e.valBytes

\* The decoder's answer once data is exhausted (io.EOF, line 319).
EOF == [WellFormed(0) EXCEPT !.eof = TRUE]

\* ---------------------------------------------------------------- Init
\* The state after the package's init(): registerWG.Add(1), initWG.Add(1).
Init ==
    /\ theName = ""
    /\ theDesc = ""
    /\ theInput = FALSE
    /\ theOutput = FALSE
    /\ registerWG = 1
    /\ initWG = 1
    /\ unregister = FALSE
    /\ hostRegistered = FALSE
    /\ onceDone = FALSE
    /\ runCancel = FALSE
    /\ cancelled = FALSE
    /\ chanState = "nil"
    /\ theChannel = << >>
    /\ cbuf = << >>
    /\ buflock = "free"
    /\ pc = [p \in Calls \cup Workers |-> IF p \in Calls THEN "idle" ELSE "off"]
    /\ ret = [c \in Calls |-> NoRet]
    /\ pollBuf = << >>
    /\ blob = << >>
    /\ tag = ""
    /\ flushMsg = NoMsg
    /\ flushErr = "nil"
    /\ errShared = FALSE
    /\ redisMsg = NoMsg
    /\ panicked = ""
    /\ nextMsg = 1
    /\ delivered = << >>
    /\ got = << >>
    /\ hist = [regSignals |-> 0, initSignals |-> 0, initFails |-> 0,
               userInits |-> 0, collects |-> 0, flushRuns |-> 0,
               contexts |-> 0, channels |-> 0, samplers |-> 0,
               redistributors |-> 0, encodeErrors |-> 0, exits |-> 0,
               latePoll |-> FALSE, lateFlush |-> FALSE, lateCall |-> FALSE]

Goto(p, l) == pc' = [pc EXCEPT ![p] = l]
Finish(c, status) ==
    /\ pc' = [pc EXCEPT ![c] = "ret"]
    /\ ret' = [ret EXCEPT ![c] = status]
Bump(f) == hist' = [hist EXCEPT ![f] = @ + 1]
\* For what happens without bound: the counter stops at one.
Mark(f) == hist' = [hist EXCEPT ![f] = 1]
\* A poll call leaves its loop (or does not enter it): hist.latePoll has
\* served.
LoopLeft == hist' = [hist EXCEPT !.latePoll = FALSE]

\* sync.WaitGroup.Done: the counter drops by one; below zero it panics.
WGDone(n) == n - 1
WGPanics(n) == n - 1 < 0

\* --------------------------------------------------------- registration
DescOf(n) == IF n = "a" THEN "first" ELSE "second"

\* plugin.RegisterInput / plugin.RegisterOutput: a second registration of
\* either role panics and changes nothing.
SameRoleRegistered(input) == IF input THEN theInput ELSE theOutput
AlreadyRegistered(input) == theInput \/ theOutput

RegisterInput(n) ==
    /\ Alive
    /\ IF AlreadyRegistered(TRUE)
       THEN /\ panicked' = "plugin already registered"
            /\ UNCHANGED regVars
       ELSE /\ theName' = n
            /\ theDesc' = DescOf(n)
            /\ theInput' = TRUE
            /\ UNCHANGED << theOutput, panicked >>
    /\ UNCHANGED << gateVars, runVars, bufVars, pc, ret, pollVars,
                    flushVars, nextMsg, hist >>

RegisterOutput(n) ==
    /\ Alive
    /\ IF AlreadyRegistered(FALSE)
       THEN /\ panicked' = "plugin already registered"
            /\ UNCHANGED regVars
       ELSE /\ theName' = n
            /\ theDesc' = DescOf(n)
            /\ theOutput' = TRUE
            /\ UNCHANGED << theInput, panicked >>
    /\ UNCHANGED << gateVars, runVars, bufVars, pc, ret, pollVars,
                    flushVars, nextMsg, hist >>

\* ---------------------------------------------------- FLBPluginRegister
\* Lines 48-70, up to the return statement.
RegisterCall ==
    /\ Alive
    /\ ThreadFree("register")
    /\ IF ~theInput /\ ~theOutput
       THEN /\ Finish("register", FLB_RETRY)
            /\ UNCHANGED << unregister, hostRegistered >>
       ELSE /\ Finish("register", FLB_OK)
            /\ unregister' = TRUE
            /\ hostRegistered' = TRUE
    /\ UNCHANGED << regVars, registerWG, initWG, runVars, bufVars,
                    pollVars, flushVars, panicked, nextMsg, hist >>

\* Line 49: defer registerWG.Done(), run as the call returns.
RegisterReturn ==
    /\ Alive
    /\ pc["register"] = "ret"
    /\ IF WGPanics(registerWG)
       THEN /\ panicked' = "sync: negative WaitGroup counter"
            /\ UNCHANGED << registerWG, pc, ret, hist >>
       ELSE /\ registerWG' = WGDone(registerWG)
            /\ Goto("register", "idle")
            /\ ret' = [ret EXCEPT !["register"] = NoRet]
            /\ Bump("regSignals")
            /\ UNCHANGED panicked
    /\ UNCHANGED << regVars, initWG, unregister, hostRegistered, runVars,
                    bufVars, pollVars, flushVars, nextMsg >>

\* -------------------------------------------------------- FLBPluginInit
\* Line 80: registerWG.Wait() returns once the counter is zero.
GateNeverWaits == TRUE
RegisteredGateOpen == registerWG = 0

InitCall ==
    /\ Alive
    /\ ThreadFree("init")
    /\ Goto("init", "wait")
    /\ UNCHANGED << regVars, gateVars, runVars, bufVars, ret,
                    pollVars, flushVars, panicked, nextMsg, hist >>

\* Lines 80-117: past the gate; cmtOk is whether the metrics context could
\* be obtained.  User Init is invoked at the end of this step.
InitProceed(cmtOk) ==
    /\ Alive
    /\ pc["init"] = "wait"
    /\ RegisteredGateOpen
    /\ IF ~theInput /\ ~theOutput
       THEN Finish("init", FLB_RETRY) /\ UNCHANGED hist
       ELSE IF ~cmtOk
            THEN Finish("init", FLB_ERROR) /\ UNCHANGED hist
            ELSE Goto("init", "user") /\ Bump("userInits") /\ UNCHANGED ret
    /\ UNCHANGED << regVars, gateVars, runVars, bufVars, pollVars,
                    flushVars, panicked, nextMsg >>

\* Lines 104/117-124: user Init returns, with an error or without.
InitUserReturns(failed) ==
    /\ Alive
    /\ pc["init"] = "user"
    /\ Finish("init", IF failed THEN FLB_ERROR ELSE FLB_OK)
    /\ UNCHANGED << regVars, gateVars, runVars, bufVars, pollVars, flushVars,
                    panicked, nextMsg, hist >>

\* Line 78: defer initWG.Done(), run as the call returns.
InitReturn ==
    /\ Alive
    /\ pc["init"] = "ret"
    /\ IF WGPanics(initWG)
       THEN /\ panicked' = "sync: negative WaitGroup counter"
            /\ UNCHANGED << initWG, pc, ret, hist >>
       ELSE /\ initWG' = WGDone(initWG)
            /\ Goto("init", "idle")
            /\ ret' = [ret EXCEPT !["init"] = NoRet]
            /\ hist' = [hist EXCEPT !.initSignals = @ + 1,
                                    !.initFails = IF ret["init"] = FLB_OK
                                                  THEN @ ELSE 1]
            /\ UNCHANGED panicked
    /\ UNCHANGED << regVars, registerWG, unregister, hostRegistered, runVars,
                    bufVars, pollVars, flushVars, nextMsg >>

\* Lines 134 and 262: initWG.Wait() returns once the counter is zero.
InitGateOpen == initWG = 0

\* once.Do runs its function only if the Once has not fired.
OnceNeverFired == FALSE
OnceFired == onceDone

\* ----------------------------------------------- FLBPluginInputCallback
\* hist.latePoll: the call is made after cancellation has been signalled;
\* hist.lateCall: it is made after an Exit call has returned.
PollCall ==
    /\ Alive
    /\ ThreadFree("poll")
    /\ Goto("poll", "wait")
    /\ hist' = [hist EXCEPT !.latePoll = cancelled,
                            !.lateCall = (hist.exits = 1)]
    /\ UNCHANGED << regVars, gateVars, runVars, bufVars, ret, pollVars,
                    flushVars, panicked, nextMsg >>

\* Lines 134-139.
PollProceed ==
    /\ Alive
    /\ pc["poll"] = "wait"
    /\ InitGateOpen
    /\ IF ~theInput
       THEN Finish("poll", FLB_RETRY)
       ELSE Goto("poll", "once") /\ UNCHANGED ret
    /\ UNCHANGED << regVars, gateVars, runVars, bufVars, pollVars, flushVars,
                    panicked, nextMsg, hist >>

\* Lines 141-142: once.Do; the start action begins with the context.
PollOnce ==
    /\ Alive
    /\ pc["poll"] = "once"
    /\ IF OnceFired
       THEN /\ Goto("poll", "lock")
            /\ hist' = [hist EXCEPT !.lateCall = FALSE]
            /\ UNCHANGED << onceDone, runCancel, cancelled >>
       ELSE /\ onceDone' = TRUE
            /\ runCancel' = TRUE
            /\ cancelled' = FALSE
            /\ hist' = [hist EXCEPT !.contexts = @ + 1, !.lateCall = FALSE]
            /\ Goto("poll", "start")
    /\ UNCHANGED << regVars, gateVars, chanState, bufVars, ret, pollVars,
                    flushVars, panicked, nextMsg >>

\* Lines 144-196: the channels are made and the two goroutines started.
PollStart ==
    /\ Alive
    /\ pc["poll"] = "start"
    /\ chanState' = "open"
    /\ theChannel' = << >>
    /\ cbuf' = << >>
    /\ pc' = [pc EXCEPT !["poll"] = "lock", !["sampler"] = "select",
                        !["redis"] = "lock"]
    /\ hist' = [hist EXCEPT !.channels = @ + 1, !.samplers = @ + 1,
                            !.redistributors = @ + 1]
    /\ UNCHANGED << regVars, gateVars, onceDone, runCancel, cancelled,
                    buflock, redisMsg, ret, pollVars, flushVars, panicked,
                    nextMsg >>

\* Lines 199-205: buflock.Lock(), then loop := len(theChannel) > 0.
PollLock ==
    /\ Alive
    /\ pc["poll"] = "lock"
    /\ buflock = "free"
    /\ buflock' = "poll"
    /\ pollBuf' = << >>
    /\ Goto("poll", IF Len(theChannel) > 0 THEN "drain" ELSE "unlock")
    /\ IF Len(theChannel) > 0 THEN UNCHANGED hist ELSE LoopLeft
    /\ UNCHANGED << regVars, gateVars, runVars, theChannel, cbuf, redisMsg,
                    ret, delivered, flushVars, panicked, nextMsg >>

\* The select of lines 206-234: which of its cases are ready.
RecvReady == Len(theChannel) > 0 \/ chanState = "closed"
DoneReady == cancelled

\* Lines 218-219: buf.Grow, buf.Write: the encoding joins the batch.
BatchRestart(buf, m) == << m >>
BatchWrite(buf, m) == Append(buf, m)

\* Lines 207-219: a message is received and encoded; encOk is whether
\* input.NewEncoder().Encode can encode its record (every message is encoded
\* at most once).  A failed encoding returns FLB_ERROR at once: the batch is
\* lost and buflock stays locked.
PollRecv(encOk) ==
    /\ Alive
    /\ pc["poll"] = "drain"
    /\ Len(theChannel) > 0
    /\ theChannel' = Tail(theChannel)
    /\ IF encOk
       THEN /\ pollBuf' = BatchWrite(pollBuf, Head(theChannel))
            /\ UNCHANGED << pc, ret, hist >>
       ELSE /\ Finish("poll", FLB_ERROR)
            /\ pollBuf' = << >>
            /\ hist' = [hist EXCEPT !.encodeErrors = 1, !.latePoll = FALSE]
    /\ UNCHANGED << regVars, gateVars, runVars, cbuf, buflock, redisMsg,
                    delivered, flushVars, panicked, nextMsg >>

\* Lines 207-210: the channel is closed and empty, ok is false.
PollRecvClosed ==
    /\ Alive
    /\ pc["poll"] = "drain"
    /\ Len(theChannel) = 0
    /\ chanState = "closed"
    /\ Finish("poll", FLB_ERROR)
    /\ pollBuf' = << >>
    /\ LoopLeft
    /\ UNCHANGED << regVars, gateVars, runVars, bufVars, delivered,
                    flushVars, panicked, nextMsg >>

\* Lines 220-222: default is taken only when no other case is ready.
PollDefault ==
    /\ Alive
    /\ pc["poll"] = "drain"
    /\ ~RecvReady
    /\ ~DoneReady
    /\ Goto("poll", "unlock")
    /\ LoopLeft
    /\ UNCHANGED << regVars, gateVars, runVars, bufVars, ret, pollVars,
                    flushVars, panicked, nextMsg >>

\* Lines 223-233: the context is done (its error is always Canceled).
PollDone ==
    /\ Alive
    /\ pc["poll"] = "drain"
    /\ DoneReady
    /\ Goto("poll", "unlock")
    /\ LoopLeft
    /\ UNCHANGED << regVars, gateVars, runVars, bufVars, ret, pollVars,
                    flushVars, panicked, nextMsg >>

\* Lines 236-245: buflock.Unlock(), the batch is handed to the host.
PollUnlock ==
    /\ Alive
    /\ pc["poll"] = "unlock"
    /\ buflock' = "free"
    /\ Finish("poll", FLB_OK)
    /\ UNCHANGED << regVars, gateVars, runVars, theChannel, cbuf, redisMsg,
                    pollVars, flushVars, panicked, nextMsg, hist >>

\* The call returns: on FLB_OK the host owns the batch.
PollReturn ==
    /\ Alive
    /\ pc["poll"] = "ret"
    /\ Goto("poll", "idle")
    /\ ret' = [ret EXCEPT !["poll"] = NoRet]
    /\ delivered' = delivered \o pollBuf
    /\ pollBuf' = << >>
    /\ UNCHANGED << regVars, gateVars, runVars, bufVars, flushVars, panicked,
                    nextMsg, hist >>

\* ------------------------------------------- the sampling worker, 152-166
\* The ticker fires: user Collect is invoked.
SamplerTick ==
    /\ Alive
    /\ pc["sampler"] = "select"
    /\ Goto("sampler", "collect")
    /\ Mark("collects")
    /\ UNCHANGED << regVars, gateVars, runVars, bufVars, ret, pollVars,
                    flushVars, panicked, nextMsg >>

SamplerDone ==
    /\ Alive
    /\ pc["sampler"] = "select"
    /\ cancelled
    /\ Goto("sampler", "done")
    /\ UNCHANGED << regVars, gateVars, runVars, bufVars, ret, pollVars,
                    flushVars, panicked, nextMsg, hist >>

\* cbuf := make(chan Message, 16): a send waits while the buffer is full.
CbufHasRoom == Len(cbuf) < StagingCap

\* User Collect pushes its next message into cbuf.
CollectPush ==
    /\ Alive
    /\ pc["sampler"] = "collect"
    /\ nextMsg <= MaxMsgs
    /\ CbufHasRoom
    /\ cbuf' = Append(cbuf, [id |-> nextMsg, tag |-> ""])
    /\ nextMsg' = nextMsg + 1
    /\ UNCHANGED << regVars, gateVars, runVars, theChannel, buflock, redisMsg,
                    pc, ret, pollVars, flushVars, panicked, hist >>

\* User Collect returns (its error is only logged).
CollectReturn ==
    /\ Alive
    /\ pc["sampler"] = "collect"
    /\ Goto("sampler", "select")
    /\ UNCHANGED << regVars, gateVars, runVars, bufVars, ret, pollVars,
                    flushVars, panicked, nextMsg, hist >>

\* ---------------------------------------------- the redistributor, 170-196
\* Line 178: buflock.Lock().
RedisLock ==
    /\ Alive
    /\ pc["redis"] = "lock"
    /\ buflock = "free"
    /\ buflock' = "redis"
    /\ Goto("redis", "select")
    /\ UNCHANGED << regVars, gateVars, runVars, theChannel, cbuf, redisMsg,
                    ret, pollVars, flushVars, panicked, nextMsg, hist >>

\* Lines 180-184: a message arrives from cbuf; buflock.Unlock().
RedisRecv ==
    /\ Alive
    /\ pc["redis"] = "select"
    /\ Len(cbuf) > 0
    /\ redisMsg' = Head(cbuf)
    /\ cbuf' = Tail(cbuf)
    /\ buflock' = "free"
    /\ Goto("redis", "send")
    /\ UNCHANGED << regVars, gateVars, runVars, theChannel, ret, pollVars,
                    flushVars, panicked, nextMsg, hist >>

\* theChannel = make(chan Message, 300000): a send waits while it is full.
PrimaryNeverFull == TRUE
PrimaryHasRoom == Len(theChannel) < PrimaryCap

\* Line 185: theChannel <- msg.  A send on a closed channel panics.
RedisSend ==
    /\ Alive
    /\ pc["redis"] = "send"
    /\ IF chanState = "closed"
       THEN /\ panicked' = "send on closed channel"
            /\ UNCHANGED << theChannel, redisMsg, pc >>
       ELSE /\ PrimaryHasRoom
            /\ theChannel' = Append(theChannel, redisMsg)
            /\ redisMsg' = NoMsg
            /\ Goto("redis", "relock")
            /\ UNCHANGED panicked
    /\ UNCHANGED << regVars, gateVars, runVars, cbuf, buflock, ret, pollVars,
                    flushVars, nextMsg, hist >>

\* Lines 187-188: the one-second ticker fires; buflock.Unlock().
RedisTick ==
    /\ Alive
    /\ pc["redis"] = "select"
    /\ buflock' = "free"
    /\ Goto("redis", "relock")
    /\ UNCHANGED << regVars, gateVars, runVars, theChannel, cbuf, redisMsg,
                    ret, pollVars, flushVars, panicked, nextMsg, hist >>

\* Lines 190-192: the context is done; buflock.Unlock() and return.
RedisDone ==
    /\ Alive
    /\ pc["redis"] = "select"
    /\ cancelled
    /\ buflock' = "free"
    /\ Goto("redis", "done")
    /\ UNCHANGED << regVars, gateVars, runVars, theChannel, cbuf, redisMsg,
                    ret, pollVars, flushVars, panicked, nextMsg, hist >>

\* Lines 186/189: buflock.Lock() after the send or the tick.
RedisRelock ==
    /\ Alive
    /\ pc["redis"] = "relock"
    /\ buflock = "free"
    /\ buflock' = "redis"
    /\ Goto("redis", "unlock")
    /\ UNCHANGED << regVars, gateVars, runVars, theChannel, cbuf, redisMsg,
                    ret, pollVars, flushVars, panicked, nextMsg, hist >>

\* Line 194: buflock.Unlock() at the end of the loop body.
RedisUnlock ==
    /\ Alive
    /\ pc["redis"] = "unlock"
    /\ buflock' = "free"
    /\ Goto("redis", "lock")
    /\ UNCHANGED << regVars, gateVars, runVars, theChannel, cbuf, redisMsg,
                    ret, pollVars, flushVars, panicked, nextMsg, hist >>

\* ------------------------------------------------------- FLBPluginFlush
\* hist.lateFlush: the call is made after user Flush has returned;
\* hist.lateCall: it is made after an Exit call has returned.
FlushCall ==
    /\ Alive
    /\ ThreadFree("flush")
    /\ Goto("flush", "wait")
    /\ got' = << >>
    /\ blob' = << >>
    /\ tag' = ""
    /\ flushErr' = "nil"
    /\ hist' = [hist EXCEPT !.lateFlush = (pc["worker"] = "returned"),
                            !.lateCall = (hist.exits = 1)]
    /\ UNCHANGED << regVars, gateVars, runVars, bufVars, ret, pollVars,
                    flushMsg, errShared, panicked, nextMsg >>

\* Lines 262-267.
FlushProceed ==
    /\ Alive
    /\ pc["flush"] = "wait"
    /\ InitGateOpen
    /\ IF ~theOutput
       THEN Finish("flush", FLB_RETRY)
       ELSE Goto("flush", "once") /\ UNCHANGED ret
    /\ UNCHANGED << regVars, gateVars, runVars, bufVars, pollVars, flushVars,
                    panicked, nextMsg, hist >>

\* Lines 270-271: once.Do; the start action begins with the context.
FlushOnce ==
    /\ Alive
    /\ pc["flush"] = "once"
    /\ IF OnceFired
       THEN /\ Goto("flush", "errchk")
            /\ hist' = [hist EXCEPT !.lateCall = FALSE]
            /\ UNCHANGED << onceDone, runCancel, cancelled >>
       ELSE /\ onceDone' = TRUE
            /\ runCancel' = TRUE
            /\ cancelled' = FALSE
            /\ hist' = [hist EXCEPT !.contexts = @ + 1, !.lateCall = FALSE]
            /\ Goto("flush", "start")
    /\ UNCHANGED << regVars, gateVars, chanState, bufVars, ret, pollVars,
                    flushVars, panicked, nextMsg >>

\* Lines 272-275: the unbuffered channel is made and the goroutine that
\* runs user Flush is started; its closure holds this call's err.
FlushStart ==
    /\ Alive
    /\ pc["flush"] = "start"
    /\ chanState' = "open"
    /\ theChannel' = << >>
    /\ errShared' = TRUE
    /\ pc' = [pc EXCEPT !["flush"] = "errchk", !["worker"] = "run"]
    /\ hist' = [hist EXCEPT !.channels = @ + 1, !.flushRuns = @ + 1]
    /\ UNCHANGED << regVars, gateVars, onceDone, runCancel, cancelled, cbuf,
                    buflock, redisMsg, ret, pollVars, blob, tag,
                    flushMsg, flushErr, got, panicked, nextMsg >>

\* Lines 277-280.
FlushErrCheck ==
    /\ Alive
    /\ pc["flush"] = "errchk"
    /\ IF flushErr /= "nil"
       THEN Finish("flush", FLB_ERROR)
       ELSE Goto("flush", "select") /\ UNCHANGED ret
    /\ UNCHANGED << regVars, gateVars, runVars, bufVars, pollVars, flushVars,
                    panicked, nextMsg, hist >>

\* Lines 282-284 and 291-294: the context is done, err = runCtx.Err(); or
\* default, and the call goes on to read its arguments.
FlushSelect ==
    /\ Alive
    /\ pc["flush"] = "select"
    /\ IF cancelled
       THEN /\ flushErr' = "canceled"
            /\ Goto("flush", "selchk")
       ELSE /\ flushErr' = "nil"
            /\ Goto("flush", "ext")
    /\ UNCHANGED << regVars, gateVars, runVars, bufVars, ret, pollVars, blob,
                    tag, flushMsg, errShared, got, panicked, nextMsg, hist >>

\* Lines 285-290.
FlushSelectCheck ==
    /\ Alive
    /\ pc["flush"] = "selchk"
    /\ Finish("flush", IF flushErr \notin {"nil", "canceled"}
                       THEN FLB_ERROR ELSE FLB_OK)
    /\ UNCHANGED << regVars, gateVars, runVars, bufVars, pollVars, flushVars,
                    panicked, nextMsg, hist >>

\* Lines 294-302: the call's arguments are read (t is the tag),
\* err = h.SetBytesExt(...), which does not fail, and err is tested.
FlushDecoder(t) ==
    /\ Alive
    /\ pc["flush"] = "ext"
    /\ IF flushErr /= "nil"
       THEN Finish("flush", FLB_ERROR) /\ UNCHANGED tag
       ELSE Goto("flush", "loop") /\ tag' = t /\ UNCHANGED ret
    /\ UNCHANGED << regVars, gateVars, runVars, bufVars, pollVars, blob,
                    flushMsg, flushErr, errShared, got, panicked, nextMsg,
                    hist >>

\* The message line 370 builds from a decoded entry.
MessageUntagged(e, t) == [id |-> e.id, tag |-> ""]
MessageOf(e, t) == [id |-> e.id, tag |-> t]

\* Line 272, theChannel = make(chan Message): the channel has no buffer, so
\* a send never completes without a receiver.
HandoffBuffered == Len(theChannel) < 1
HandoffHasRoom == FALSE

\* Lines 304-367: one turn of the decode loop, up to the send.  e is what
\* the decoder finds next in data: an entry, or EOF.  blob collects the
\* entries read so far: when EOF is read it is the whole of data.
FlushLoop(e) ==
    /\ Alive
    /\ pc["flush"] = "loop"
    /\ e.eof \/ Len(blob) < MaxBlob
    /\ IF cancelled
       THEN Finish("flush", FLB_OK) /\ UNCHANGED << blob, flushMsg >>
       ELSE IF e.eof
            THEN Finish("flush", FLB_OK) /\ UNCHANGED << blob, flushMsg >>
            ELSE /\ blob' = Append(blob, e)
                 /\ IF ~DecodeOk(e)
                    THEN Finish("flush", FLB_ERROR) /\ UNCHANGED flushMsg
                    ELSE IF HandoffHasRoom /\ chanState = "open"
                         THEN UNCHANGED << pc, ret, flushMsg >>
                         ELSE /\ flushMsg' = MessageOf(e, tag)
                              /\ Goto("flush", "send")
                              /\ UNCHANGED ret
    /\ theChannel' = IF /\ ~cancelled /\ ~e.eof /\ DecodeOk(e)
                       /\ HandoffHasRoom /\ chanState = "open"
                    THEN Append(theChannel, MessageOf(e, tag))
                    ELSE theChannel
    /\ UNCHANGED << regVars, gateVars, runVars, cbuf, buflock, redisMsg,
                    pollVars, tag, flushErr, errShared, got, panicked,
                    nextMsg, hist >>

\* Line 370, theChannel <- msg, when Exit has closed the channel.
FlushSendClosed ==
    /\ Alive
    /\ pc["flush"] = "send"
    /\ chanState = "closed"
    /\ panicked' = "send on closed channel"
    /\ UNCHANGED << regVars, gateVars, runVars, bufVars, pc, ret, pollVars,
                    flushVars, nextMsg, hist >>

FlushReturn ==
    /\ Alive
    /\ pc["flush"] = "ret"
    /\ Goto("flush", "idle")
    /\ ret' = [ret EXCEPT !["flush"] = NoRet]
    /\ errShared' = FALSE
    /\ hist' = [hist EXCEPT !.lateFlush = FALSE]
    /\ UNCHANGED << regVars, gateVars, runVars, bufVars, pollVars, blob, tag,
                    flushMsg, flushErr, got, panicked, nextMsg >>

\* ------------------------------------------- the user Flush worker, 273-275
\* theChannel = make(chan Message): a send completes only together with a
\* receive.  User Flush receives the message line 370 is sending.
HandoffReady == pc["flush"] = "send" /\ chanState = "open"

WorkerRecv ==
    /\ Alive
    /\ pc["worker"] = "run"
    /\ IF Len(theChannel) > 0
       THEN /\ got' = Append(got, Head(theChannel))
            /\ theChannel' = Tail(theChannel)
            /\ UNCHANGED << pc, flushMsg >>
       ELSE /\ HandoffReady
            /\ got' = Append(got, flushMsg)
            /\ flushMsg' = NoMsg
            /\ Goto("flush", "loop")
            /\ UNCHANGED theChannel
    /\ UNCHANGED << regVars, gateVars, runVars, cbuf, buflock, redisMsg, ret,
                    pollVars, blob, tag, flushErr, errShared, panicked,
                    nextMsg, hist >>

\* Line 274: user Flush returns e and the goroutine assigns it to err.
WorkerReturn(e) ==
    /\ Alive
    /\ pc["worker"] = "run"
    /\ Goto("worker", "returned")
    /\ flushErr' = IF errShared THEN e ELSE flushErr
    /\ UNCHANGED << regVars, gateVars, runVars, bufVars, ret, pollVars, blob,
                    tag, flushMsg, errShared, got, panicked, nextMsg, hist >>

\* -------------------------------------------------------- FLBPluginExit
\* Lines 383-387.
ExitCall ==
    /\ Alive
    /\ ThreadFree("exit")
    /\ Goto("exit", "cancel")
    /\ hostRegistered' = IF unregister THEN FALSE ELSE hostRegistered
    /\ UNCHANGED << regVars, registerWG, initWG, unregister, runVars, bufVars,
                    ret, pollVars, flushVars, panicked, nextMsg, hist >>

\* Lines 389-391.
ExitCancel ==
    /\ Alive
    /\ pc["exit"] = "cancel"
    /\ cancelled' = IF runCancel THEN TRUE ELSE cancelled
    /\ Goto("exit", "close")
    /\ UNCHANGED << regVars, gateVars, onceDone, runCancel, chanState,
                    bufVars, ret, pollVars, flushVars, panicked, nextMsg,
                    hist >>

\* Lines 393-397: if theChannel is not nil its close is deferred, and runs
\* as the call returns FLB_OK.  Closing a closed channel panics.
ExitClose ==
    /\ Alive
    /\ pc["exit"] = "close"
    /\ IF chanState = "closed"
       THEN /\ panicked' = "close of closed channel"
            /\ UNCHANGED << chanState, pc, hist >>
       ELSE /\ chanState' = IF chanState = "open" THEN "closed" ELSE chanState
            /\ Goto("exit", "idle")
            /\ Mark("exits")
            /\ UNCHANGED panicked
    /\ UNCHANGED << regVars, gateVars, onceDone, runCancel, cancelled,
                    bufVars, ret, pollVars, flushVars, nextMsg >>

\* ---------------------------------------------------- the specifications
Registration ==
    \/ (\E n \in Names : RegisterInput(n))
    \/ (\E n \in Names : RegisterOutput(n))

Lifecycle ==
    \/ RegisterCall \/ RegisterReturn
    \/ InitCall \/ (\E ok \in BOOLEAN : InitProceed(ok))
    \/ (\E failed \in BOOLEAN : InitUserReturns(failed))
    \/ InitReturn

PollEntry == PollCall \/ PollProceed \/ PollOnce \/ PollStart

\* A poll call whose loop is not entered: the primary buffer is empty at
\* line 205.
PollDrain == PollLock \/ PollUnlock \/ PollReturn

FlushEntry ==
    \/ FlushCall \/ FlushProceed \/ FlushOnce \/ FlushStart \/ FlushErrCheck
    \/ FlushSelect \/ FlushSelectCheck
    \/ (\E t \in Tags : FlushDecoder(t))
    \/ FlushReturn

Exit == ExitCall \/ ExitCancel \/ ExitClose

Sampler == SamplerTick \/ SamplerDone \/ CollectReturn

Redistributor ==
    \/ RedisLock \/ RedisTick \/ RedisDone \/ RedisRelock \/ RedisUnlock

\* What moves messages through the input pipeline.
InputFlow ==
    \/ CollectPush \/ RedisRecv \/ RedisSend
    \/ (\E encOk \in BOOLEAN : PollRecv(encOk))
    \/ PollRecvClosed \/ PollDefault \/ PollDone

\* What moves messages through the output pipeline.
OutputFlow ==
    \/ (\E e \in WireEntries : FlushLoop(e))
    \/ WorkerRecv \/ FlushSendClosed

\* The lifecycle: every entry point, called in any order and interleaving,
\* with a collector that produces nothing and flush calls whose data is
\* empty.
Next ==
    \/ Registration \/ Lifecycle
    \/ PollEntry \/ PollDrain \/ Sampler \/ Redistributor
    \/ FlushEntry \/ FlushLoop(EOF)
    \/ (\E e \in {"nil", "err"} : WorkerReturn(e))
    \/ Exit

Spec == Init /\ [][Next]_vars

\* The state of an instance whose registration and initialization are done:
\* RegisterInput or RegisterOutput, then FLBPluginRegister and FLBPluginInit
\* have each returned FLB_OK.
Initialized(input) ==
    /\ theName = "a"
    /\ theDesc = DescOf("a")
    /\ theInput = input
    /\ theOutput = ~input
    /\ registerWG = 0
    /\ initWG = 0
    /\ unregister = TRUE
    /\ hostRegistered = TRUE
    /\ onceDone = FALSE
    /\ runCancel = FALSE
    /\ cancelled = FALSE
    /\ chanState = "nil"
    /\ theChannel = << >>
    /\ cbuf = << >>
    /\ buflock = "free"
    /\ pc = [p \in Calls \cup Workers |-> IF p \in Calls THEN "idle" ELSE "off"]
    /\ ret = [c \in Calls |-> NoRet]
    /\ pollBuf = << >>
    /\ blob = << >>
    /\ tag = ""
    /\ flushMsg = NoMsg
    /\ flushErr = "nil"
    /\ errShared = FALSE
    /\ redisMsg = NoMsg
    /\ panicked = ""
    /\ nextMsg = 1
    /\ delivered = << >>
    /\ got = << >>
    /\ hist = [regSignals |-> 1, initSignals |-> 1, initFails |-> 0,
               userInits |-> 1, collects |-> 0, flushRuns |-> 0,
               contexts |-> 0, channels |-> 0, samplers |-> 0,
               redistributors |-> 0, encodeErrors |-> 0, exits |-> 0,
               latePoll |-> FALSE, lateFlush |-> FALSE, lateCall |-> FALSE]

\* The input pipeline of an initialized input plugin: poll calls, the two
\* goroutines, the collector, and Exit.
InitInput == Initialized(TRUE)

NextInput ==
    \/ PollEntry \/ PollDrain \/ InputFlow \/ Sampler \/ Redistributor
    \/ Exit

SpecInput == InitInput /\ [][NextInput]_vars

\* The same under the scheduling the runtime gives: the host keeps polling
\* and a running call goes on; a goroutine that can run does; sync.Mutex
\* hands the lock to a waiter (starvation mode), and select picks among its
\* ready cases at random, so a case that is ready again and again is taken.
\* Nothing is assumed of the collector or of Exit.
PollSteps ==
    \/ PollEntry \/ PollDefault \/ PollDone \/ PollUnlock \/ PollReturn
    \/ (\E encOk \in BOOLEAN : PollRecv(encOk))
    \/ PollRecvClosed

FairInput ==
    /\ WF_vars(PollSteps)
    /\ SF_vars(PollLock)
    /\ SF_vars(RedisLock \/ RedisRelock)
    /\ SF_vars(RedisRecv)
    /\ WF_vars(RedisSend \/ RedisTick \/ RedisUnlock)

FairSpecInput == SpecInput /\ FairInput

\* The output pipeline of an initialized output plugin: flush calls, the
\* user Flush worker, and Exit.
InitOutput == Initialized(FALSE)

NextOutput ==
    \/ FlushEntry \/ FlushLoop(EOF) \/ OutputFlow
    \/ (\E e \in {"nil", "err"} : WorkerReturn(e))
    \/ Exit

SpecOutput == InitOutput /\ [][NextOutput]_vars

\* ------------------------------------------------------------ the claims
\* Where a poll or flush call stands once it is past its once.Do.
PastOnce(c) == pc[c] \notin {"idle", "wait", "once", "start"} /\ ret[c] /= FLB_RETRY

C2_LifecycleOrder ==
    /\ hist.userInits > 0 => hist.regSignals >= 1
    /\ pc["init"] \in {"user", "ret"} => hist.regSignals >= 1
    /\ (hist.contexts > 0 \/ hist.collects > 0 \/ hist.flushRuns > 0)
          => hist.initSignals >= 1
    /\ \A c \in {"poll", "flush"} :
          pc[c] \notin {"idle", "wait"} => hist.initSignals >= 1

\* A poll call waits at the initialized gate while user Init, let through
\* by a Register call, is running.
C2_Witness ==
    /\ pc["poll"] = "wait"
    /\ pc["init"] = "user"
    /\ hist.regSignals = 1
    /\ ~InitGateOpen

Ids(q) == [i \in 1..Len(q) |-> q[i].id]
\* The message the redistributor holds between its receive and its send.
InHand == IF redisMsg = NoMsg THEN << >> ELSE << redisMsg >>
\* Every place a message of the input pipeline can be, newest last.
Pipeline == delivered \o pollBuf \o theChannel \o InHand \o cbuf
\* Every pushed message is in the pipeline, once, in the order pushed.
Conserved == Ids(Pipeline) = [i \in 1..(nextMsg - 1) |-> i]
\* No record has failed to encode and Exit has not been called.
Healthy == hist.encodeErrors = 0 /\ hostRegistered
Returned(m) == \E i \in 1..Len(delivered) : delivered[i].id = m
WithinCapacity == Len(cbuf) <= StagingCap /\ Len(theChannel) <= PrimaryCap

Sending == IF pc["flush"] = "send" THEN << flushMsg >> ELSE << >>
\* The records of the entries q as messages tagged t.
Msgs(q, t) == [i \in 1..Len(q) |-> [id |-> q[i].id, tag |-> t]]
\* A malformed entry: bytes that do not decode, an arity other than 2, a
\* time that is not the time extension, a record that is not a map, a key
\* that is not a string, a value that is not a byte sequence.
Malformed(e) ==
    \/ ~e.raw
    \/ e.len /= 2
    \/ ~e.timeExt
    \/ ~e.isMap
    \/ ~e.keyStr
    \/ ~e.valBytes
\* The entries read so far without the malformed one that ended the call.
Decoded ==
    IF Len(blob) > 0 /\ Malformed(blob[Len(blob)])
    THEN SubSeq(blob, 1, Len(blob) - 1)
    ELSE blob

\* C5: output delivery.  What user Flush has received during a flush call,
\* followed by the message the call is sending, is at every moment the
\* records decoded so far, in decode order, each once and carrying the
\* call's tag; a call that returns FLB_OK without cancellation has read all
\* of its data, every entry well formed, and user Flush has received all of
\* its records.
C5_OutputDelivery ==
    /\ got \o theChannel \o Sending = Msgs(Decoded, tag)
    /\ (pc["flush"] = "ret" /\ ret["flush"] = FLB_OK /\ ~cancelled) =>
          /\ \A i \in 1..Len(blob) : ~Malformed(blob[i])
          /\ got = Msgs(blob, tag)

\* A call with two different records has handed both over and returns OK.
C5_Witness ==
    /\ pc["flush"] = "ret"
    /\ ret["flush"] = FLB_OK
    /\ ~cancelled
    /\ Len(got) = 2
    /\ got[1].id /= got[2].id
    /\ got[1].tag = "mytag"

\* C6: a decode error.  Once entry k of the data is malformed the call has
\* stopped at it and returns FLB_ERROR; the records before k, all well
\* formed, have been received by user Flush and stay received; record k is
\* not sent, and nothing is read or sent after it.
C6_DecodeError ==
    \A k \in 1..Len(blob) :
       Malformed(blob[k]) =>
          /\ k = Len(blob)
          /\ pc["flush"] \in {"ret", "idle"}
          /\ pc["flush"] = "ret" => ret["flush"] = FLB_ERROR
          /\ got = Msgs(SubSeq(blob, 1, k - 1), tag)
          /\ flushMsg = NoMsg
          /\ theChannel = << >>

\* Record 2 of the data is malformed: record 1 has been received, the call
\* returns FLB_ERROR.
C6_Witness ==
    /\ Len(blob) = 2
    /\ Malformed(blob[2])
    /\ Len(got) = 1
    /\ pc["flush"] = "ret"
    /\ ret["flush"] = FLB_ERROR

\* C7: output backpressure.  The handoff channel never buffers a message.
\* A flush call stands at its enqueue only after the start action and with
\* the record decoded; it leaves the enqueue only by user Flush receiving
\* that record (it then goes on with its loop) or by a panic, and user
\* Flush receives a record only from a call standing at its enqueue.
C7_Backpressure ==
    /\ [](theOutput => theChannel = << >>)
    /\ [](pc["flush"] = "send" =>
             /\ hist.flushRuns = 1
             /\ chanState /= "nil"
             /\ Len(blob) > 0
             /\ ~Malformed(blob[Len(blob)])
             /\ flushMsg = [id |-> blob[Len(blob)].id, tag |-> tag])
    /\ [][(pc["flush"] = "send" /\ pc'["flush"] /= "send") =>
             /\ pc'["flush"] = "loop"
             /\ got' = Append(got, flushMsg)]_vars
    /\ [][(got' /= got /\ got' /= << >>) =>
             /\ pc["flush"] = "send"
             /\ got' = Append(got, flushMsg)]_vars

\* The consumer has received one record; the call stands at the enqueue of
\* its second record, which user Flush has not read.
C7_Witness ==
    /\ pc["flush"] = "send"
    /\ pc["worker"] = "run"
    /\ Len(got) = 1
    /\ Len(blob) = 2
    /\ ~cancelled

\* C8 as stated: after cancellation no message enters a queue: the primary
\* buffer gets no message and user Flush's queue hands none over.
C8_NoEnqueueAfterCancel ==
    [][cancelled =>
          /\ Len(theChannel') <= Len(theChannel)
          /\ Len(got') <= Len(got)]_vars

\* C9 as stated: after cancellation every worker and every flush call in
\* progress exits cleanly: none is left at a queue put, so none is aborted
\* there by a send on the channel Exit closes.
C9_CleanExitAfterCancel ==
    cancelled => panicked /= "send on closed channel"

\* C11 as stated: once user Flush has returned without cancellation, a
\* flush call made afterwards short-circuits: it never stands at an enqueue
\* (where nobody is left to receive), it returns FLB_OK whatever well-formed
\* records its data holds, and user Flush is not started again.
C11_ShortCircuit ==
    (hist.lateFlush /\ ~cancelled) =>
       /\ pc["flush"] /= "send"
       /\ (pc["flush"] = "ret" /\ \A i \in 1..Len(blob) : ~Malformed(blob[i]))
             => ret["flush"] = FLB_OK
       /\ hist.flushRuns <= 1

\* C12 as stated: cancellation is never an error.  Once cancellation has
\* been signalled, a poll call in which no record failed to encode does not
\* return FLB_ERROR, also when Exit has closed the primary channel; nor
\* does a flush call whose data is well formed and whose user Flush
\* reported no error.
C12_CancelIsClean ==
    /\ (cancelled /\ pc["poll"] = "ret" /\ hist.encodeErrors = 0)
          => ret["poll"] /= FLB_ERROR
    /\ (/\ cancelled
        /\ pc["flush"] = "ret"
        /\ flushErr /= "err"
        /\ \A i \in 1..Len(blob) : ~Malformed(blob[i]))
          => ret["flush"] /= FLB_ERROR

\* C13 as stated: no failure crosses the host boundary as an abort.  Every
\* call that returns yields FLB_OK, FLB_ERROR or FLB_RETRY, and the process
\* is never aborted by a gate counter going negative, a send on a closed
\* channel or a close of a closed channel.
C13_NoAbort ==
    /\ \A c \in Calls : ret[c] \in {NoRet, FLB_OK, FLB_ERROR, FLB_RETRY}
    /\ panicked \notin {"sync: negative WaitGroup counter",
                        "send on closed channel",
                        "close of closed channel"}

\* C14 as stated: a record that fails to encode does not stop the input
\* pipeline.  Once the poll call has returned FLB_ERROR for it, the buffer
\* lock is not left with that call: the redistributor and the next poll
\* call, which stands before or at buflock.Lock(), can acquire it.
C14_PipelineSurvives ==
    (hist.encodeErrors = 1 /\ pc["poll"] \in {"idle", "wait", "once", "lock"})
       => buflock /= "poll"

\* C15 as stated: fill and drain exclude each other.  While a poll call
\* holds the buffer lock and drains, no message is added to the primary
\* buffer: a step taken then leaves the buffer as it is or shorter.
C15_FillDrainExclusive ==
    [][(buflock = "poll" /\ pc["poll"] = "drain") =>
          /\ Len(theChannel') <= Len(theChannel)
          /\ \A i \in 1..Len(theChannel') :
                \E j \in 1..Len(theChannel) : theChannel'[i] = theChannel[j]]_vars

\* C16 as stated: a poll call made after cancellation has been signalled
\* drains whatever remains.  When such a call leaves its loop to hand its
\* batch to the host, the primary buffer is empty.
C16_DrainsRemainder ==
    [][(hist.latePoll /\ pc["poll"] = "drain" /\ pc'["poll"] = "unlock")
          => theChannel' = << >>]_vars

\* C17 as stated: Exit closes the channel only after its senders have
\* stopped.  When the channel is closed, and at any time after, neither the
\* redistributor nor a flush call stands at its send on it.
C17_ClosedAfterSenders ==
    chanState = "closed" => (pc["redis"] /= "send" /\ pc["flush"] /= "send")

\* C18 as stated: each lifecycle gate is one-shot.  Over any sequence of
\* Register and Init calls each gate is signalled at most once and its
\* counter never drops below zero: a call that is about to signal its gate
\* finds it not yet signalled, and no call is aborted for a negative
\* counter.
C18_GatesOneShot ==
    /\ hist.regSignals <= 1
    /\ hist.initSignals <= 1
    /\ registerWG >= 0
    /\ initWG >= 0
    /\ pc["register"] = "ret" => registerWG > 0
    /\ pc["init"] = "ret" => initWG > 0
    /\ panicked /= "sync: negative WaitGroup counter"

\* C19 as stated: a failed initialization never leads to Running.  Once an
\* Init call has returned FLB_ERROR or FLB_RETRY, no poll or flush call has
\* run or runs the start action, and user Collect and user Flush are not
\* invoked.
C19_FailedInitNeverRuns ==
    hist.initFails = 1 =>
       /\ hist.contexts = 0
       /\ hist.channels = 0
       /\ hist.collects = 0
       /\ hist.flushRuns = 0

\* A goroutine the start action made is running.
WorkerRunning ==
    \/ pc["sampler"] \notin {"off", "done"}
    \/ pc["redis"] \notin {"off", "done"}
    \/ pc["worker"] = "run"

\* C20 as stated: Exited is terminal.  A poll or flush call made after an
\* Exit call has returned does not run the start action (it creates no
\* context, hence no channel and no goroutine), also when the start action
\* had not run before that Exit; and once Exit has returned, a goroutine
\* still running has a cancellation signal that is set.
C20_ExitedIsTerminal ==
    /\ [][hist.lateCall =>
            /\ onceDone' = onceDone
            /\ hist'.contexts = hist.contexts]_vars
    /\ []((hist.exits = 1 /\ WorkerRunning) => cancelled)

=============================================================================
